---- MODULE Spec2Model ----
\* Stage-graph executor (src/src/utils/mock_langgraph.py) and the corrosion
\* inspection pipeline built on it (src/src/agents/corrosion_agent.py,
\* src/src/agents/nodes.py).
EXTENDS Integers, Sequences, FiniteSets, TLC

VARIABLES graph, state, current_node, iteration, pc, trace, result, caller

vars == <<graph, state, current_node, iteration, pc, trace, result, caller>>

\* ---------------------------------------------------------------- values

\* mock_langgraph.END, the terminal marker.
END == "END"

\* Python's None where a name is expected (entry_point, next node).
None == "None"

\* Python's None for an Optional[...] field; a set value x is kept as <<x>>.
NoValue == <<>>

\* max_iterations of CompiledGraph.invoke.
max_iterations == 20

\* Number of entries already in errors/warnings of the state handed to invoke.
MaxPrior == 1

\* Number of image files a caller hands to run_inspection.
MaxImages == 1

\* Number of builder calls a caller makes after the first compile().
MaxBuilderCalls == 1

\* Stage names of the graphs the executor is run on.
Names == {"a", "b"}

Targets == Names \cup {END}

\* ---------------------------------------------------------------- AgentState

Fields ==
    {"session_id", "current_step", "platform_id", "inspection_area",
     "sensor_readings", "image_files", "processed_images",
     "corrosion_detections", "risk_assessment", "final_report",
     "llm_analysis", "start_time", "last_update", "errors", "warnings"}

\* The fields of AgentState without a default.
RequiredFields ==
    {"session_id", "current_step", "platform_id", "inspection_area",
     "start_time", "last_update"}

\* The defaults of the optional fields of AgentState.
FieldDefaults ==
    [sensor_readings |-> <<>>, image_files |-> <<>>, processed_images |-> <<>>,
     corrosion_detections |-> <<>>, risk_assessment |-> NoValue,
     final_report |-> NoValue, llm_analysis |-> {}, errors |-> <<>>,
     warnings |-> <<>>]

\* AgentState(**m): fails unless every required field is given; keys that are
\* no field are ignored, fields not given take their default.
CanConstruct(m) == RequiredFields \subseteq DOMAIN m

AgentStateFromDict(m) ==
    [f \in Fields |-> IF f \in DOMAIN m THEN m[f] ELSE FieldDefaults[f]]

\* for key, value in result.items(): if hasattr(state, key): setattr(...)
SetRecognizedFields(st, m) ==
    [f \in Fields |-> IF f \in DOMAIN m THEN m[f] ELSE st[f]]

\* AgentState(session_id=..., current_step=..., ...) as the callers build it.
NewAgentState(sid, step, pid, area, imgs, t) ==
    AgentStateFromDict(
        [session_id |-> sid, current_step |-> step, platform_id |-> pid,
         inspection_area |-> area, image_files |-> imgs, start_time |-> t,
         last_update |-> t])

\* The entry the executor appends when a stage function raises.
NodeError(name) == <<"node_failed", name>>

\* ---------------------------------------------------------------- stage functions

\* What a stage function hands back to the executor: tag is "state" (an
\* AgentState object), "dict" (a mapping), "other" (any other value) or
\* "raise" (the call raised).
EmptyDict == [k \in {} |-> 0]

StateResult(st) == [tag |-> "state", state |-> st, dict |-> EmptyDict]

DictResult(st, m) == [tag |-> "dict", state |-> st, dict |-> m]

OtherResult(st) == [tag |-> "other", state |-> st, dict |-> EmptyDict]

RaiseResult(st) == [tag |-> "raise", state |-> st, dict |-> EmptyDict]

\* Stage functions registered on the executor's test graphs, one per return
\* shape that invoke tells apart.
GenericKinds == {"state", "dict_full", "dict_part", "dict_junk", "other", "raise"}

\* The mapping of a stage that returns every required field and nothing else.
FullDict(name, st) ==
    [session_id |-> st.session_id, current_step |-> name,
     platform_id |-> st.platform_id, inspection_area |-> st.inspection_area,
     start_time |-> st.start_time, last_update |-> st.last_update]

\* A mapping with one recognized field and one key that is no field.
PartDict(name) == [current_step |-> name, bogus |-> 1]

\* A mapping without any recognized field.
JunkDict == [bogus |-> 1]

GenericNodeFunc(kind, name, st) ==
    CASE kind = "state" -> {StateResult([st EXCEPT !.current_step = name])}
      [] kind = "dict_full" -> {DictResult(st, FullDict(name, st))}
      [] kind = "dict_part" -> {DictResult(st, PartDict(name))}
      [] kind = "dict_junk" -> {DictResult(st, JunkDict)}
      [] kind = "other" -> {OtherResult(st)}
      [] OTHER -> {RaiseResult(st)}

\* ---------------------------------------------------------------- sequences

RECURSIVE SumSeq(_)
SumSeq(s) == IF Len(s) = 0 THEN 0 ELSE s[1] + SumSeq(Tail(s))

RECURSIVE MaxSeq(_)
MaxSeq(s) ==
    IF Len(s) = 1 THEN s[1]
    ELSE LET m == MaxSeq(Tail(s)) IN IF s[1] > m THEN s[1] ELSE m

Min(x, y) == IF x < y THEN x ELSE y

Max(x, y) == IF x > y THEN x ELSE y

Abs(x) == IF x < 0 THEN -x ELSE x

\* ---------------------------------------------------------------- Intake

\* Units: thickness and depth in 1/100 mm, temperature in degrees C, humidity
\* in percent, pH in 1/10, area in mm2.

\* base_thickness = 12.0 mm
BaseThickness == 1200

\* What the sensors deliver in one run: the thickness loss at the five
\* measuring points (uniform(0, 3.0) mm), temperature (15..35), humidity
\* (60..90), pH (7.5..8.5).
SensorProfiles ==
    {[loss |-> <<0, 0, 0, 0, 0>>, temp |-> 15, hum |-> 60, ph |-> 80],
     [loss |-> <<275, 250, 225, 250, 250>>, temp |-> 34, hum |-> 89, ph |-> 84]}

SensorData(type, value) == [sensor_type |-> type, value |-> value]

\* _generate_thickness_readings: for i in range(5)
ThicknessReadings(p) ==
    [i \in 1..5 |-> SensorData("thickness", BaseThickness - p.loss[i])]

\* thickness, environmental (temperature, humidity, ph) and electrochemical
\* (conductivity) readings, in the order _collect_sensor_data extends them.
GeneratedReadings(p) ==
    ThicknessReadings(p) \o
    <<SensorData("temperature", p.temp), SensorData("humidity", p.hum),
      SensorData("ph", p.ph), SensorData("conductivity", 50000)>>

\* The outcomes of _collect_sensor_data: the readings of a profile, or the
\* try block raises.
SensorOutcomes ==
    {[ok |-> b, profile |-> p] : b \in BOOLEAN, p \in SensorProfiles}

\* _collect_sensor_data with outcome o.
CollectSensorData(st, o) ==
    IF o.ok
    THEN [st EXCEPT !.sensor_readings = GeneratedReadings(o.profile)]
    ELSE [st EXCEPT !.errors = Append(@, <<"sensor_failed">>)]

\* Image files a caller may name: one that exists and decodes, one that does
\* not exist, one that exists but cv2.imread cannot decode.
ImageFileKinds == {"ok.jpg", "missing.jpg", "bad.jpg"}

ImageFileLists == UNION {[1..n -> ImageFileKinds] : n \in 0..MaxImages}

ImageData(id, generated) == [image_id |-> id, generated |-> generated]

RECURSIVE ProcessedFiles(_, _)
\* The loop of _process_image_data: the ImageData of the files that exist and
\* decode (_process_single_image returns None for the others).
ProcessedFiles(files, k) ==
    IF Len(files) = 0 THEN <<>>
    ELSE (IF files[1] = "ok.jpg" THEN <<ImageData(<<"img", k>>, FALSE)>> ELSE <<>>)
         \o ProcessedFiles(Tail(files), k + 1)

RECURSIVE MissingWarnings(_)
\* One warning for each file that does not exist.
MissingWarnings(files) ==
    IF Len(files) = 0 THEN <<>>
    ELSE (IF files[1] = "missing.jpg" THEN <<<<"image_missing", files[1]>>>> ELSE <<>>)
         \o MissingWarnings(Tail(files))

\* _generate_sample_images: for i in range(3)
SampleImages == [i \in 1..3 |-> ImageData(<<"sample", i>>, TRUE)]

\* Mutant of ProcessImageData: a file that does not exist is recorded in
\* errors, not in warnings.
ProcessImageData_MissingIsError(st, o) ==
    LET processed == ProcessedFiles(st.image_files, 1)
        warned == [st EXCEPT !.errors = @ \o MissingWarnings(st.image_files)]
    IN  IF Len(processed) > 0
        THEN [warned EXCEPT !.processed_images = processed]
        ELSE IF o = "fail"
             THEN [warned EXCEPT !.errors = Append(@, <<"image_failed">>)]
             ELSE [warned EXCEPT !.processed_images = SampleImages]

\* _process_image_data with outcome o: "ok", or "fail" when writing the
\* sample images raises (the warnings appended by the loop stay).
ProcessImageData(st, o) ==
    LET processed == ProcessedFiles(st.image_files, 1)
        warned == [st EXCEPT !.warnings = @ \o MissingWarnings(st.image_files)]
    IN  IF Len(processed) > 0
        THEN [warned EXCEPT !.processed_images = processed]
        ELSE IF o = "fail"
             THEN [warned EXCEPT !.errors = Append(@, <<"image_failed">>)]
             ELSE [warned EXCEPT !.processed_images = SampleImages]

\* The outcomes of _process_image_data that the state allows: it can raise
\* only where sample images are written.
ImageOutcomes(st) ==
    IF Len(ProcessedFiles(st.image_files, 1)) > 0 THEN {"ok"} ELSE {"ok", "fail"}

\* DataCollectionNode.execute
DataCollectionExecute(st, so, io) == ProcessImageData(CollectSensorData(st, so), io)

\* Mutant of DataCollectionNodeFunc: the stage hands back a state with a
\* session id of its own.
DataCollectionNodeFunc_NewSession(st, clock) ==
    LET st0 == [st EXCEPT !.current_step = "data_collection", !.last_update = clock,
                          !.session_id = <<"new", @>>]
    IN  {StateResult(DataCollectionExecute(st0, so, io)) :
            so \in SensorOutcomes, io \in ImageOutcomes(st0)}

\* _data_collection_node: every exception of execute is caught inside it.
DataCollectionNodeFunc(st, clock) ==
    LET st0 == [st EXCEPT !.current_step = "data_collection", !.last_update = clock]
    IN  {StateResult(DataCollectionExecute(st0, so, io)) :
            so \in SensorOutcomes, io \in ImageOutcomes(st0)}

\* ---------------------------------------------------------------- Analysis

\* What the vision analyzer makes of one image: no finding (the image does
\* not decode, no region is found, or the analyzer raises), or regions with
\* their number, their area and the estimated depth.
NoRegions == [found |-> FALSE, boxes |-> 0, area |-> 0, depth |-> 0]

DetectionShapes ==
    {[found |-> TRUE, boxes |-> 1, area |-> 300, depth |-> 50],
     [found |-> TRUE, boxes |-> 4, area |-> 3000, depth |-> 190]}

DetectOutcomes == {NoRegions} \cup DetectionShapes

\* _classify_corrosion_type
ClassifyCorrosionType(boxes) ==
    IF boxes = 1 THEN "localized" ELSE IF boxes > 3 THEN "pitting" ELSE "uniform"

\* Confidence values are kept in units of 1/400000.
ConfidenceUnit == 400000

\* _calculate_confidence: 0.7 * max(0.1, 1 - 0.05 n) * (0.5 + 0.5 min(1, area/1000)),
\* clamped to [0.3, 0.95].
CalculateConfidence(boxes, area) ==
    LET region == Max(2, 20 - boxes)
        c == 7 * region * (1000 + Min(1000, area))
    IN  Min(380000, Max(120000, c))

\* _analyze_image for an image the analyzer found regions in.
CorrosionDetection(image, o) ==
    [detection_id |-> <<"detection", image.image_id>>,
     image_id |-> image.image_id,
     corrosion_area |-> o.area,
     corrosion_depth |-> o.depth,
     corrosion_type |-> ClassifyCorrosionType(o.boxes),
     confidence |-> CalculateConfidence(o.boxes, o.area)]

RECURSIVE AnalyzeImages(_, _)
\* The loop of CorrosionAnalysisNode.execute: one detection per image with
\* regions, in image order.
AnalyzeImages(images, outs) ==
    IF Len(images) = 0 THEN <<>>
    ELSE (IF outs[1].found THEN <<CorrosionDetection(images[1], outs[1])>> ELSE <<>>)
         \o AnalyzeImages(Tail(images), Tail(outs))

ReadingsOfType(readings, type) ==
    SelectSeq(readings, LAMBDA r : r.sensor_type = type)

ValuesOf(readings) == [i \in 1..Len(readings) |-> readings[i].value]

\* np.mean of the values (the inputs used keep the quotient exact).
Mean(values) == SumSeq(values) \div Len(values)

\* _enhance_with_sensor_data: depth raised to 0.8 * average thickness loss,
\* confidence raised by 0.05 up to 0.95; unchanged without thickness readings.
EnhanceWithSensorData(detections, readings) ==
    LET thickness == ReadingsOfType(readings, "thickness")
    IN  IF Len(thickness) = 0 THEN detections
        ELSE LET loss == BaseThickness - Mean(ValuesOf(thickness))
             IN  [i \in 1..Len(detections) |->
                    [detections[i] EXCEPT
                        !.corrosion_depth = Max(@, (loss * 8) \div 10),
                        !.confidence = Min(380000, @ + 20000)]]

\* dict.update on the advisory map, kept as a set of <<key, origin>> pairs.
DictUpdate(d, new) ==
    {e \in d : \A n \in new : n[1] # e[1]} \cup new

\* _perform_llm_analysis: the commentary of the advisory service, or the
\* local fallback when the call raises.
LlmAnalysis(o) ==
    IF o = "llm"
    THEN {<<"severity_assessment", "llm">>, <<"technical_insights", "llm">>,
          <<"trend_prediction", "llm">>}
    ELSE {<<"severity_assessment", "local">>, <<"technical_insights", "local">>}

\* Mutant of CorrosionAnalysisExecute: a failure of the advisory call is
\* recorded in errors.
CorrosionAnalysisExecute_AdvisoryFailureRecorded(st, outs, lo) ==
    LET detections == AnalyzeImages(st.processed_images, outs)
        enhanced == EnhanceWithSensorData(detections, st.sensor_readings)
    IN  [st EXCEPT !.llm_analysis = DictUpdate(@, LlmAnalysis(lo)),
                   !.corrosion_detections = enhanced,
                   !.errors = IF lo = "raise" THEN Append(@, <<"llm_failed">>) ELSE @]

\* CorrosionAnalysisNode.execute
CorrosionAnalysisExecute(st, outs, lo) ==
    LET detections == AnalyzeImages(st.processed_images, outs)
        enhanced == EnhanceWithSensorData(detections, st.sensor_readings)
    IN  [st EXCEPT !.llm_analysis = DictUpdate(@, LlmAnalysis(lo)),
                   !.corrosion_detections = enhanced]

\* _corrosion_analysis_node: execute, or its exception caught and recorded.
CorrosionAnalysisNodeFunc(st, clock) ==
    LET st0 == [st EXCEPT !.current_step = "corrosion_analysis", !.last_update = clock]
    IN  {StateResult(CorrosionAnalysisExecute(st0, outs, lo)) :
            outs \in [1..Len(st0.processed_images) -> DetectOutcomes],
            lo \in {"llm", "raise"}}
        \cup {StateResult([st0 EXCEPT !.errors = Append(@, <<"analysis_failed">>)])}

\* ---------------------------------------------------------------- RiskScoring

\* Factors and scores are kept in units of 1/150000, so that 1.0 is Unit and
\* every term of the formulas below is a whole number.
Unit == 150000

\* config.low_risk_threshold, medium_risk_threshold, high_risk_threshold
\* (0.3, 0.6, 0.8).
low_risk_threshold == 45000

medium_risk_threshold == 90000

high_risk_threshold == 120000

\* min(1.0, (avg - lo) / width) * weight, for readings of one kind; nothing
\* is added when there is no reading of the kind.
BandScore(readings, type, lo, width, weight) ==
    LET vals == ValuesOf(ReadingsOfType(readings, type))
    IN  IF Len(vals) = 0 THEN 0
        ELSE Min(weight * Unit, (weight * Unit * (Mean(vals) - lo)) \div width) \div 10

\* abs(avg_ph - 8.0) / 2.0, capped at 1.0, times 0.3
PhScore(readings) ==
    LET vals == ValuesOf(ReadingsOfType(readings, "ph"))
    IN  IF Len(vals) = 0 THEN 0
        ELSE Min(3 * Unit, (3 * Unit * Abs(Mean(vals) - 80)) \div 20) \div 10

\* _calculate_environmental_factor
CalculateEnvironmentalFactor(readings) ==
    IF Len(readings) = 0 THEN Unit \div 2
    ELSE Min(Unit, BandScore(readings, "temperature", 15, 20, 3)
                   + BandScore(readings, "humidity", 60, 30, 4)
                   + PhScore(readings))

\* Mutant of get_risk_level: a score equal to a threshold stays in the lower
\* level.
get_risk_level_Inclusive(score) ==
    IF score <= low_risk_threshold THEN "LOW"
    ELSE IF score <= medium_risk_threshold THEN "MEDIUM"
    ELSE IF score <= high_risk_threshold THEN "HIGH"
    ELSE "CRITICAL"

\* config.get_risk_level
get_risk_level(score) ==
    IF score < low_risk_threshold THEN "LOW"
    ELSE IF score < medium_risk_threshold THEN "MEDIUM"
    ELSE IF score < high_risk_threshold THEN "HIGH"
    ELSE "CRITICAL"

\* _determine_risk_level
DetermineRiskLevel(score) ==
    IF score < low_risk_threshold THEN "LOW"
    ELSE IF score < medium_risk_threshold THEN "MEDIUM"
    ELSE IF score < high_risk_threshold THEN "HIGH"
    ELSE "CRITICAL"

\* Mutant of DetermineUrgency: the depth overrides are left out.
DetermineUrgency_LevelOnly(level, max_depth) ==
    IF level = "CRITICAL" THEN "urgent"
    ELSE IF level = "HIGH" THEN "high"
    ELSE IF level = "MEDIUM" THEN "medium"
    ELSE "low"

\* Mutant of DetermineUrgency: a depth equal to a threshold already
\* overrides the level.
DetermineUrgency_DepthInclusive(level, max_depth) ==
    IF level = "CRITICAL" \/ max_depth >= 200 THEN "urgent"
    ELSE IF level = "HIGH" \/ max_depth >= 100 THEN "high"
    ELSE IF level = "MEDIUM" THEN "medium"
    ELSE "low"

\* _determine_urgency (depth thresholds 2.0 mm and 1.0 mm)
DetermineUrgency(level, max_depth) ==
    IF level = "CRITICAL" \/ max_depth > 200 THEN "urgent"
    ELSE IF level = "HIGH" \/ max_depth > 100 THEN "high"
    ELSE IF level = "MEDIUM" THEN "medium"
    ELSE "low"

\* _generate_recommendations: the fixed list of a level (3, 4, 5, 5 entries).
GenerateRecommendations(level) ==
    LET n == IF level = "LOW" THEN 3 ELSE IF level = "MEDIUM" THEN 4 ELSE 5
    IN  [i \in 1..n |-> <<"fixed", level, i>>]

\* _enhance_recommendations_with_llm: the insights of the advisory service
\* when it returns a non-empty list, else the fixed list.
EnhanceRecommendations(base, o) ==
    IF o = "llm" THEN [i \in 1..3 |-> <<"llm", "insight", i>>] ELSE base

\* The three factors computed from the findings.
AreaFactor(detections) ==
    Min(Unit, (Unit * SumSeq([i \in 1..Len(detections) |->
                                  detections[i].corrosion_area])) \div 5000)

DepthFactor(detections) ==
    Min(Unit, (Unit * MaxSeq([i \in 1..Len(detections) |->
                                  detections[i].corrosion_depth])) \div 300)

CountFactor(detections) == Min(Unit, (Unit * Len(detections)) \div 10)

\* risk_score = 0.3 area + 0.4 depth + 0.2 count + 0.1 environmental
RiskScore(area, depth, count, env) ==
    (3 * area + 4 * depth + 2 * count + env) \div 10

\* The factors map of _assess_risk.
Factors(detections, readings) ==
    [corrosion_area |-> AreaFactor(detections),
     corrosion_depth |-> DepthFactor(detections),
     corrosion_count |-> CountFactor(detections),
     environmental |-> CalculateEnvironmentalFactor(readings)]

\* _assess_risk
AssessRisk(detections, readings, o) ==
    LET f == Factors(detections, readings)
        score == RiskScore(f.corrosion_area, f.corrosion_depth,
                           f.corrosion_count, f.environmental)
        level == DetermineRiskLevel(score)
        max_depth == MaxSeq([i \in 1..Len(detections) |->
                                detections[i].corrosion_depth])
    IN  [corrosion_level |-> level,
         risk_score |-> score,
         factors |-> Factors(detections, readings),
         recommendations |-> EnhanceRecommendations(GenerateRecommendations(level), o),
         urgency |-> DetermineUrgency(level, max_depth)]

\* The assessment when there is no finding: LOW, 0.1, two recommendations.
NoCorrosionAssessment ==
    [corrosion_level |-> "LOW",
     risk_score |-> Unit \div 10,
     factors |-> [no_corrosion_detected |-> Unit],
     recommendations |-> <<<<"fixed", "none", 1>>, <<"fixed", "none", 2>>>>,
     urgency |-> "low"]

\* RiskAssessment.risk_score: Field(ge=0.0, le=1.0)
RiskAssessmentValid(a) == 0 <= a.risk_score /\ a.risk_score <= Unit

\* RiskAssessment(...) at the end of _assess_risk raises a validation error.
RiskAssessmentRaises(st) ==
    /\ Len(st.corrosion_detections) > 0
    /\ ~RiskAssessmentValid(AssessRisk(st.corrosion_detections, st.sensor_readings,
                                       "none"))

\* Mutant of RiskAssessmentExecute: without findings the score is taken from
\* the environmental factor of the readings.
RiskAssessmentExecute_ScoresEnvironment(st, o) ==
    [st EXCEPT !.risk_assessment =
        IF Len(st.corrosion_detections) = 0
        THEN <<[NoCorrosionAssessment EXCEPT
                    !.risk_score = CalculateEnvironmentalFactor(st.sensor_readings) \div 5]>>
        ELSE <<AssessRisk(st.corrosion_detections, st.sensor_readings, o)>>]

\* RiskAssessmentNode.execute
RiskAssessmentExecute(st, o) ==
    [st EXCEPT !.risk_assessment =
        IF Len(st.corrosion_detections) = 0
        THEN <<NoCorrosionAssessment>>
        ELSE <<AssessRisk(st.corrosion_detections, st.sensor_readings, o)>>]

\* _risk_assessment_node: execute, or its exception caught and recorded.
RiskAssessmentNodeFunc(st, clock) ==
    LET st0 == [st EXCEPT !.current_step = "risk_assessment", !.last_update = clock]
    IN  {StateResult(RiskAssessmentExecute(st0, o)) :
            o \in IF RiskAssessmentRaises(st0) THEN {} ELSE {"llm", "none"}}
        \cup {StateResult([st0 EXCEPT !.errors = Append(@, <<"risk_failed">>)])}

\* ---------------------------------------------------------------- ReportAssembly

\* _generate_maintenance_recommendations: the records of a level.
MaintenanceRecommendations(assessment) ==
    IF Len(assessment) = 0 THEN <<>>
    ELSE LET level == assessment[1].corrosion_level
         IN  CASE level = "LOW" ->
                    <<[recommendation_id |-> "maint_001", priority |-> 2]>>
               [] level = "MEDIUM" ->
                    <<[recommendation_id |-> "maint_002", priority |-> 3]>>
               [] level = "HIGH" ->
                    <<[recommendation_id |-> "maint_002", priority |-> 3],
                      [recommendation_id |-> "maint_003", priority |-> 4]>>
               [] OTHER ->
                    <<[recommendation_id |-> "maint_004", priority |-> 5]>>

\* Mutant of NextInspectionOffset: a report without assessment is due in one
\* week.
NextInspectionOffset_UnscoredAtOnce(assessment) ==
    IF Len(assessment) = 0 THEN [months |-> 0, weeks |-> 1]
    ELSE LET level == assessment[1].corrosion_level
         IN  CASE level = "LOW" -> [months |-> 6, weeks |-> 0]
               [] level = "MEDIUM" -> [months |-> 3, weeks |-> 0]
               [] level = "HIGH" -> [months |-> 1, weeks |-> 0]
               [] OTHER -> [months |-> 0, weeks |-> 1]

\* _calculate_next_inspection_date: the offset added to now, as
\* [months, weeks].
NextInspectionOffset(assessment) ==
    IF Len(assessment) = 0 THEN [months |-> 6, weeks |-> 0]
    ELSE LET level == assessment[1].corrosion_level
         IN  CASE level = "LOW" -> [months |-> 6, weeks |-> 0]
               [] level = "MEDIUM" -> [months |-> 3, weeks |-> 0]
               [] level = "HIGH" -> [months |-> 1, weeks |-> 0]
               [] OTHER -> [months |-> 0, weeks |-> 1]

\* ReportGenerationNode.execute; o tells whether the advisory service
\* delivered a summary of more than 50 characters.
ReportGenerationExecute(st, o, clock) ==
    [st EXCEPT !.final_report =
        <<[report_id |-> <<"report", st.session_id>>,
           timestamp |-> clock,
           platform_id |-> st.platform_id,
           area_inspected |-> st.inspection_area,
           sensor_data |-> st.sensor_readings,
           image_data |-> st.processed_images,
           corrosion_detections |-> st.corrosion_detections,
           risk_assessment |-> st.risk_assessment,
           maintenance_recommendations |->
               MaintenanceRecommendations(st.risk_assessment),
           summary |-> IF o = "llm" THEN "enhanced" ELSE "base",
           next_inspection_offset |-> NextInspectionOffset(st.risk_assessment)]>>]

\* _report_generation_node: execute, or its exception caught and recorded.
ReportGenerationNodeFunc(st, clock) ==
    LET st0 == [st EXCEPT !.current_step = "report_generation", !.last_update = clock]
    IN  {StateResult(ReportGenerationExecute(st0, o, clock)) : o \in {"llm", "none"}}
        \cup {StateResult([st0 EXCEPT !.errors = Append(@, <<"report_failed">>)])}

\* ---------------------------------------------------------------- pipeline graph

\* The stage functions _build_graph registers.
PipelineNodeFunc(kind, st, clock) ==
    CASE kind = "_data_collection_node" -> DataCollectionNodeFunc(st, clock)
      [] kind = "_corrosion_analysis_node" -> CorrosionAnalysisNodeFunc(st, clock)
      [] kind = "_risk_assessment_node" -> RiskAssessmentNodeFunc(st, clock)
      [] OTHER -> ReportGenerationNodeFunc(st, clock)

\* _should_continue_to_analysis
ShouldContinueToAnalysis(st) ==
    IF Len(st.errors) > 0
    THEN [raised |-> FALSE, label |-> "end", state |-> st]
    ELSE IF Len(st.sensor_readings) = 0 /\ Len(st.processed_images) = 0
         THEN [raised |-> FALSE, label |-> "end",
               state |-> [st EXCEPT !.errors = Append(@, <<"no_data">>)]]
         ELSE [raised |-> FALSE, label |-> "continue", state |-> st]

\* Mutant of ShouldContinueToRiskAssessment: the halt without findings
\* records no warning.
ShouldContinueToRiskAssessment_NoWarning(st) ==
    IF Len(st.errors) > 0 \/ Len(st.corrosion_detections) = 0
    THEN [raised |-> FALSE, label |-> "end", state |-> st]
    ELSE [raised |-> FALSE, label |-> "continue", state |-> st]

\* Mutant of ShouldContinueToRiskAssessment: without findings the analysis
\* is tried again.
ShouldContinueToRiskAssessment_Retry(st) ==
    IF Len(st.errors) > 0
    THEN [raised |-> FALSE, label |-> "end", state |-> st]
    ELSE IF Len(st.corrosion_detections) = 0
         THEN [raised |-> FALSE, label |-> "retry", state |-> st]
         ELSE [raised |-> FALSE, label |-> "continue", state |-> st]

\* Mutant of ShouldContinueToRiskAssessment: a run without findings goes on
\* to the scoring stage.
ShouldContinueToRiskAssessment_ScoresAnyway(st) ==
    IF Len(st.errors) > 0
    THEN [raised |-> FALSE, label |-> "end", state |-> st]
    ELSE [raised |-> FALSE, label |-> "continue", state |-> st]

\* _should_continue_to_risk_assessment
ShouldContinueToRiskAssessment(st) ==
    IF Len(st.errors) > 0
    THEN [raised |-> FALSE, label |-> "end", state |-> st]
    ELSE IF Len(st.corrosion_detections) = 0
         THEN [raised |-> FALSE, label |-> "end",
               state |-> [st EXCEPT !.warnings = Append(@, <<"no_corrosion">>)]]
         ELSE [raised |-> FALSE, label |-> "continue", state |-> st]

\* _should_generate_report
ShouldGenerateReport(st) == [raised |-> FALSE, label |-> "generate", state |-> st]

PipelineDecide(func, st) ==
    CASE func = "_should_continue_to_analysis" -> ShouldContinueToAnalysis(st)
      [] func = "_should_continue_to_risk_assessment" ->
            ShouldContinueToRiskAssessment(st)
      [] OTHER -> ShouldGenerateReport(st)

\* _build_graph
PipelineGraph ==
    [nodes |->
        [data_collection |-> "_data_collection_node",
         corrosion_analysis |-> "_corrosion_analysis_node",
         risk_assessment |-> "_risk_assessment_node",
         report_generation |-> "_report_generation_node"],
     edges |-> [report_generation |-> <<END>>],
     conditional_edges |->
        [data_collection |->
            [func |-> "_should_continue_to_analysis",
             mapping |-> [continue |-> "corrosion_analysis", end |-> END]],
         corrosion_analysis |->
            [func |-> "_should_continue_to_risk_assessment",
             mapping |-> [continue |-> "risk_assessment",
                          retry |-> "corrosion_analysis", end |-> END]],
         risk_assessment |->
            [func |-> "_should_generate_report",
             mapping |-> [generate |-> "report_generation", end |-> END]]],
     entry_point |-> "data_collection"]

\* result = node_func(state): the set of results the call may produce.
NodeFunc(kind, name, st, clock) ==
    IF kind \in GenericKinds
    THEN GenericNodeFunc(kind, name, st)
    ELSE PipelineNodeFunc(kind, st, clock)

\* ---------------------------------------------------------------- CompiledGraph

\* Mutant of RecordNodeFailure: the failure is swallowed, nothing is recorded.
RecordNodeFailure_Swallowed(st, name) == st

\* except Exception as e: state.errors.append(...)
RecordNodeFailure(st, name) ==
    [st EXCEPT !.errors = Append(@, NodeError(name))]

\* Mutant of ReconcileDict: the mapping is always merged into the existing
\* state, no new state is constructed.
ReconcileDict_AlwaysMerge(st, m) == SetRecognizedFields(st, m)

\* The dict branch: rebuild the state, else update the fields it has.
ReconcileDict(st, m) ==
    IF CanConstruct(m) THEN AgentStateFromDict(m) ELSE SetRecognizedFields(st, m)

\* Mutant of ReconcileResult: a result of any other shape is recorded as a
\* stage failure instead of being dropped.
ReconcileResult_OtherRecorded(st, r, name) ==
    CASE r.tag = "state" -> r.state
      [] r.tag = "dict" ->
            IF \E f \in Fields : f \in DOMAIN r.dict
            THEN ReconcileDict(st, r.dict)
            ELSE RecordNodeFailure(st, name)
      [] OTHER -> RecordNodeFailure(st, name)

\* Lines 68-99 of invoke: what state holds after the stage call.
ReconcileResult(st, r, name) ==
    CASE r.tag = "state" -> r.state
      [] r.tag = "dict" -> ReconcileDict(st, r.dict)
      [] r.tag = "raise" -> RecordNodeFailure(st, name)
      [] OTHER -> st

\* Decision functions of the test graphs: return the label "k", return the
\* label "u" (never a key of a mapping), or raise.
GenericDecisions == {"label_k", "label_u", "raise"}

GenericDecide(func, st) ==
    CASE func = "label_k" -> [raised |-> FALSE, label |-> "k", state |-> st]
      [] func = "label_u" -> [raised |-> FALSE, label |-> "u", state |-> st]
      [] OTHER -> [raised |-> TRUE, label |-> "", state |-> st]

\* condition_result = condition_func(state)
Decide(func, st) ==
    IF func \in GenericDecisions THEN GenericDecide(func, st) ELSE PipelineDecide(func, st)

\* return next_node if next_node != END else None
EndToNone(next) == IF next # END THEN next ELSE None

\* Mutant of PlainEdge: the edge registered last is followed.
PlainEdge_Last(g, cur) ==
    IF cur \in DOMAIN g.edges /\ Len(g.edges[cur]) > 0
    THEN EndToNone(g.edges[cur][Len(g.edges[cur])])
    ELSE None

\* Lines 122-129 of _get_next_node: the first plain edge, if any.
PlainEdge(g, cur) ==
    IF cur \in DOMAIN g.edges /\ Len(g.edges[cur]) > 0
    THEN EndToNone(g.edges[cur][1])
    ELSE None

\* _get_next_node: next is the next name (None to stop), state the state the
\* decision function leaves, raised whether the decision function raised.
GetNextNode(g, cur, st) ==
    IF cur \in DOMAIN g.conditional_edges
    THEN LET ce == g.conditional_edges[cur]
             d == Decide(ce.func, st)
         IN  IF d.raised
             THEN [raised |-> TRUE, next |-> None, state |-> d.state]
             ELSE IF d.label \in DOMAIN ce.mapping
                  THEN [raised |-> FALSE, next |-> EndToNone(ce.mapping[d.label]),
                        state |-> d.state]
                  ELSE [raised |-> FALSE, next |-> PlainEdge(g, cur),
                        state |-> d.state]
    ELSE [raised |-> FALSE, next |-> PlainEdge(g, cur), state |-> st]

\* Mutant of LoopCondition: the ceiling test is off by one.
LoopCondition_OffByOne(node, it) ==
    node # END /\ node # None /\ it <= max_iterations

\* while current_node != END and current_node is not None
\*       and iteration < max_iterations
LoopCondition(node, it) == node # END /\ node # None /\ it < max_iterations

LoopPc(node, it) == IF LoopCondition(node, it) THEN "exec" ELSE "done"

\* One pass of the loop body up to the stage call and its reconciliation.
ExecuteNode ==
    /\ pc = "exec"
    /\ iteration' = iteration + 1
    /\ IF current_node \in DOMAIN graph.nodes
       THEN \E r \in NodeFunc(graph.nodes[current_node], current_node, state,
                              iteration + 1) :
                /\ state' = ReconcileResult(state, r, current_node)
                /\ trace' = Append(trace, [node |-> current_node, invoked |-> TRUE])
       ELSE /\ state' = state
            /\ trace' = Append(trace, [node |-> current_node, invoked |-> FALSE])
    /\ pc' = "route"
    /\ UNCHANGED <<graph, current_node, result, caller>>

\* The rest of the loop body: next_node = self._get_next_node(...), then the
\* loop test; an exception of the decision function leaves invoke.
NextNode ==
    /\ pc = "route"
    /\ LET n == GetNextNode(graph, current_node, state)
       IN  /\ state' = n.state
           /\ IF n.raised
              THEN /\ pc' = "raised"
                   /\ current_node' = current_node
              ELSE /\ current_node' = n.next
                   /\ pc' = LoopPc(n.next, iteration)
    /\ UNCHANGED <<graph, iteration, trace, result, caller>>

\* ---------------------------------------------------------------- graphs

\* self.edges[from_node]: the targets in the order add_edge appended them.
EdgeLists ==
    {<<t>> : t \in Targets} \cup {<<t, u>> : t \in Targets, u \in Targets}

\* self.conditional_edges[from_node] = (condition_func, mapping)
CondEdges ==
    {[func |-> f, mapping |-> m] : f \in GenericDecisions, m \in [{"k"} -> Targets]}

PartialFunctions(D, R) == UNION {[X -> R] : X \in SUBSET D}

\* The graphs invoke is run on: stage "a" with any stage function, any plain
\* edges and any conditional edge, and a neighbour "b" with a plain stage
\* function and at most one plain edge; either name may be unregistered.
GenericGraphs ==
    {[nodes |-> ns, edges |-> es, conditional_edges |-> cs, entry_point |-> e] :
        ns \in {f \in PartialFunctions(Names, GenericKinds) :
                    "b" \in DOMAIN f => f["b"] \in {"state", "raise"}},
        es \in {f \in PartialFunctions(Names, EdgeLists) :
                    "b" \in DOMAIN f => Len(f["b"]) = 1},
        cs \in PartialFunctions({"a"}, CondEdges),
        e \in {"a", None}}

PriorEntries(n) == [i \in 1..n |-> <<"prior">>]

\* The states handed to invoke: a fresh AgentState, possibly with entries
\* already recorded in errors and warnings.
InitialStates ==
    {[NewAgentState("s1", "init", "P1", "deck", <<>>, 0)
        EXCEPT !.errors = PriorEntries(n), !.warnings = PriorEntries(n)] :
        n \in 0..MaxPrior}

\* invoke(initial_state) on a compiled graph, before the first loop test.
Init ==
    /\ graph \in GenericGraphs
    /\ state \in InitialStates
    /\ current_node = graph.entry_point
    /\ iteration = 0
    /\ pc = LoopPc(graph.entry_point, 0)
    /\ trace = <<>>
    /\ result = NoValue
    /\ caller = [op |-> "invoke"]

Next == ExecuteNode \/ NextNode

Spec == Init /\ [][Next]_vars

\* ---------------------------------------------------------------- agent

\* The end of run_inspection / run_inspection_sync: the final state of the
\* workflow is returned; if invoke raised, the error is appended to
\* initial_state (the object the stages worked on) and that is returned.
ReturnInspection ==
    /\ pc \in {"done", "raised"}
    /\ result' = IF pc = "done"
                 THEN <<state>>
                 ELSE <<[state EXCEPT !.errors = Append(@, <<"workflow_failed">>)]>>
    /\ pc' = "returned"
    /\ UNCHANGED <<graph, state, current_node, iteration, trace, caller>>

\* run_inspection(platform_id, inspection_area, image_files=...) on a
\* constructed agent, at the call of graph.invoke(initial_state); caller keeps
\* the arguments and the session id given to initial_state.
PipelineInit ==
    /\ graph = PipelineGraph
    /\ state \in {NewAgentState("s1", "init", pid, "deck", imgs, 0) :
                    pid \in {"P1", "P2"}, imgs \in ImageFileLists}
    /\ current_node = graph.entry_point
    /\ iteration = 0
    /\ pc = LoopPc(graph.entry_point, 0)
    /\ trace = <<>>
    /\ result = NoValue
    /\ caller = [op |-> "run_inspection", platform_id |-> state.platform_id,
                 inspection_area |-> state.inspection_area,
                 session_id |-> state.session_id]

PipelineNext == ExecuteNode \/ NextNode \/ ReturnInspection

PipelineSpec == PipelineInit /\ [][PipelineNext]_vars

\* ---------------------------------------------------------------- direct calls

\* A CorrosionDetection as a caller builds it.
Finding(id, area, depth) ==
    [detection_id |-> <<"detection", <<"sample", id>>>>,
     image_id |-> <<"sample", id>>,
     corrosion_area |-> area,
     corrosion_depth |-> depth,
     corrosion_type |-> "uniform",
     confidence |-> ConfidenceUnit \div 2]

\* Findings lists handed to the stages: none, two findings of 200 and 400 mm2
\* with depths 2.5 and 1.0 mm, one slight finding, one severe finding.
FindingLists ==
    {<<>>,
     <<Finding(1, 200, 250), Finding(2, 400, 100)>>,
     <<Finding(1, 30, 5)>>,
     <<Finding(1, 6000, 320)>>}

\* Readings of a cold and dry site: 5 degrees C, 30 % humidity, pH 8.0.
ColdDryReadings ==
    <<SensorData("temperature", 5), SensorData("humidity", 30), SensorData("ph", 80)>>

\* Readings lists handed to the stages: none, thickness only, the readings of
\* a sensor profile, the cold and dry site, one temperature reading of 25
\* degrees C.
ReadingLists ==
    {<<>>, ColdDryReadings, <<SensorData("temperature", 25)>>}
    \cup {ThicknessReadings(p) : p \in SensorProfiles}
    \cup {GeneratedReadings(p) : p \in SensorProfiles}

\* The states a caller hands to a stage or a routing decision.
StageStates ==
    {[NewAgentState("s1", "test", "P1", "deck", <<>>, 0)
        EXCEPT !.errors = PriorEntries(n), !.sensor_readings = rs,
               !.processed_images = im, !.corrosion_detections = fs] :
        n \in 0..MaxPrior, rs \in ReadingLists,
        im \in {<<>>, SampleImages}, fs \in FindingLists}

\* Scores handed to the level functions: every hundredth from -0.02 to 1.02
\* and the neighbours of the thresholds.
ScoreGrid ==
    {(k * Unit) \div 100 : k \in -2..102}
    \cup {t + d : t \in {low_risk_threshold, medium_risk_threshold,
                         high_risk_threshold}, d \in {-1, 1}}

DecisionFunctions ==
    {"_should_continue_to_analysis", "_should_continue_to_risk_assessment"}

\* Image paths handed to DataCollectionNode.execute: the lists of
\* run_inspection and longer ones with several missing files.
IntakeImageLists ==
    ImageFileLists
    \cup {<<"missing.jpg", "missing.jpg">>, <<"missing.jpg", "bad.jpg">>,
          <<"missing.jpg", "ok.jpg", "missing.jpg">>}

\* The states a caller hands to DataCollectionNode.execute.
IntakeStates ==
    {[NewAgentState("s1", "test", "P1", "deck", imgs, 0)
        EXCEPT !.errors = PriorEntries(n), !.warnings = PriorEntries(n)] :
        n \in 0..MaxPrior, imgs \in IntakeImageLists}

\* CorrosionLevel
Levels == {"LOW", "MEDIUM", "HIGH", "CRITICAL"}

\* Maximum depths handed to _determine_urgency, in 1/100 mm: 0, the two
\* thresholds and their neighbours, and 3.0 mm.
DepthGrid == {0, 99, 100, 101, 199, 200, 201, 300}

\* The assessments handed to _calculate_next_inspection_date: None, or an
\* assessment of any level, score and urgency.
Assessments ==
    {NoValue}
    \cup {<<[NoCorrosionAssessment EXCEPT !.corrosion_level = l, !.urgency = u,
                                         !.risk_score = s]>> :
            l \in Levels, u \in {"low", "urgent"}, s \in {0, Unit}}

\* The calls made: a routing decision or a stage's execute on a state, the two
\* level functions on a score, _determine_urgency on a level and a depth,
\* _calculate_next_inspection_date on an assessment.
StageCalls ==
    {[op |-> o, score |-> 0] :
        o \in DecisionFunctions \cup {"RiskAssessmentNode.execute",
                                      "DataCollectionNode.execute"}}
    \cup {[op |-> "get_risk_level", score |-> s] : s \in ScoreGrid}
    \cup {[op |-> "_determine_urgency", level |-> l, max_depth |-> d] :
            l \in Levels, d \in DepthGrid}
    \cup {[op |-> "_calculate_next_inspection_date", assessment |-> a] :
            a \in Assessments}

StageInit ==
    /\ graph = PipelineGraph
    /\ caller \in StageCalls
    /\ state \in CASE caller.op = "get_risk_level" ->
                        {NewAgentState("s1", "test", "P1", "deck", <<>>, 0)}
                   [] caller.op \in {"_determine_urgency",
                                     "_calculate_next_inspection_date"} ->
                        {NewAgentState("s1", "test", "P1", "deck", <<>>, 0)}
                   [] caller.op = "DataCollectionNode.execute" -> IntakeStates
                   [] OTHER -> StageStates
    /\ current_node = None
    /\ iteration = 0
    /\ pc = "call"
    /\ trace = <<>>
    /\ result = NoValue

\* agent._should_continue_to_analysis(state) and
\* agent._should_continue_to_risk_assessment(state): the label is returned,
\* the state is the object the function appended to.
CallDecision ==
    /\ pc = "call"
    /\ caller.op \in DecisionFunctions
    /\ LET d == PipelineDecide(caller.op, state)
       IN  /\ state' = d.state
           /\ result' = <<d.label>>
    /\ pc' = "returned"
    /\ UNCHANGED <<graph, current_node, iteration, trace, caller>>

\* DataCollectionNode().execute(state)
CallDataCollection ==
    /\ pc = "call"
    /\ caller.op = "DataCollectionNode.execute"
    /\ \E so \in SensorOutcomes, io \in ImageOutcomes(state) :
          state' = DataCollectionExecute(state, so, io)
    /\ pc' = "returned"
    /\ UNCHANGED <<graph, current_node, iteration, trace, result, caller>>

\* RiskAssessmentNode().execute(state)
CallRiskAssessment ==
    /\ pc = "call"
    /\ caller.op = "RiskAssessmentNode.execute"
    /\ IF RiskAssessmentRaises(state)
       THEN /\ state' = state
            /\ pc' = "raised"
       ELSE /\ \E o \in {"llm", "none"} : state' = RiskAssessmentExecute(state, o)
            /\ pc' = "returned"
    /\ UNCHANGED <<graph, current_node, iteration, trace, result, caller>>

\* node._determine_risk_level(score) and config.get_risk_level(score)
CallRiskLevel ==
    /\ pc = "call"
    /\ caller.op = "get_risk_level"
    /\ result' = <<DetermineRiskLevel(caller.score), get_risk_level(caller.score)>>
    /\ pc' = "returned"
    /\ UNCHANGED <<graph, state, current_node, iteration, trace, caller>>

\* node._determine_urgency(level, max_depth)
CallDetermineUrgency ==
    /\ pc = "call"
    /\ caller.op = "_determine_urgency"
    /\ result' = <<DetermineUrgency(caller.level, caller.max_depth)>>
    /\ pc' = "returned"
    /\ UNCHANGED <<graph, state, current_node, iteration, trace, caller>>

\* node._calculate_next_inspection_date(risk_assessment): the offset from now.
CallNextInspectionDate ==
    /\ pc = "call"
    /\ caller.op = "_calculate_next_inspection_date"
    /\ result' = <<NextInspectionOffset(caller.assessment)>>
    /\ pc' = "returned"
    /\ UNCHANGED <<graph, state, current_node, iteration, trace, caller>>

StageNext ==
    \/ CallNextInspectionDate
    \/ CallDecision
    \/ CallDataCollection
    \/ CallRiskAssessment
    \/ CallRiskLevel
    \/ CallDetermineUrgency

StageSpec == StageInit /\ [][StageNext]_vars

\* ---------------------------------------------------------------- builder and executors

\* StateGraph.add_node: self.nodes[name] = func
AddNode(g, name, func) ==
    [g EXCEPT !.nodes = [n \in DOMAIN @ \cup {name} |->
                            IF n = name THEN func ELSE @[n]]]

\* StateGraph.set_entry_point
SetEntryPoint(g, name) == [g EXCEPT !.entry_point = name]

\* StateGraph.add_edge: the target is appended to the list of from_node.
AddEdge(g, from_node, to_node) ==
    [g EXCEPT !.edges = [n \in DOMAIN @ \cup {from_node} |->
                            IF n = from_node
                            THEN (IF n \in DOMAIN @ THEN @[n] ELSE <<>>) \o <<to_node>>
                            ELSE @[n]]]

\* StateGraph.add_conditional_edges
AddConditionalEdges(g, from_node, condition_func, mapping) ==
    [g EXCEPT !.conditional_edges =
        [n \in DOMAIN @ \cup {from_node} |->
            IF n = from_node
            THEN [func |-> condition_func, mapping |-> mapping]
            ELSE @[n]]]

\* The calls a caller makes on the builder after compile().
BuilderCalls(g) ==
    {AddNode(g, "a", "raise"), SetEntryPoint(g, "b"), AddEdge(g, "b", "a"),
     AddConditionalEdges(g, "a", "label_k", [k |-> END])}

RECURSIVE Reverse(_)
Reverse(seq) == IF Len(seq) = 0 THEN <<>> ELSE Reverse(Tail(seq)) \o <<seq[1]>>

\* Mutant of BuilderAfterCompile: compile() reverses the edge lists in place.
BuilderAfterCompile_ReversesEdges(g) ==
    [g EXCEPT !.edges = [n \in DOMAIN @ |-> Reverse(@[n])]]

\* StateGraph.compile: return CompiledGraph(self); the builder as the call
\* leaves it. The executor keeps the builder itself (self.graph = graph).
BuilderAfterCompile(g) == g

\* Mutant of AInvokeStart: the coroutine returns the state without running
\* the graph.
AInvokeStart_NotRun(g, st) == [state |-> st, current_node |-> None, iteration |-> 0]

\* CompiledGraph.invoke before the loop: state, current_node, iteration.
InvokeStart(g, st) == [state |-> st, current_node |-> g.entry_point, iteration |-> 0]

\* CompiledGraph.ainvoke: return self.invoke(initial_state)
AInvokeStart(g, st) == InvokeStart(g, st)

\* The builders a caller compiles: stages "a" and "b" registered, entry "a",
\* or set_entry_point never called (entry_point is None, as __init__ left it).
ExecutorGraphs ==
    {[nodes |-> [a |-> ka, b |-> "state"],
      edges |-> es, conditional_edges |-> cs, entry_point |-> ep] :
        ka \in {"state", "raise"}, ep \in {"a", None},
        es \in {f \in PartialFunctions(Names, EdgeLists) :
                    /\ "a" \in DOMAIN f
                    /\ f["a"] \in {<<"b">>, <<"a">>, <<"b", "a">>, <<END, "b">>}
                    /\ "b" \in DOMAIN f => f["b"] \in {<<END>>, <<"a">>}},
        cs \in PartialFunctions({"a"},
                 {[func |-> "label_k", mapping |-> [k |-> "b"]]})}

\* A caller holding a configured builder and an input state.
ExecutorInit ==
    /\ graph \in ExecutorGraphs
    /\ state \in InitialStates
    /\ current_node = None
    /\ iteration = 0
    /\ pc = "idle"
    /\ trace = <<>>
    /\ result = NoValue
    /\ caller = [op |-> "", initial |-> state, executor |-> 0, compiled |-> <<>>,
                 registration |-> 0, builder_calls |-> 0, runs |-> <<>>]

\* executor = builder.compile(), at most twice; compiled keeps, for each
\* executor, the registration at the time of its compile(): the number of
\* builder calls made before it.
Compile ==
    /\ pc = "idle"
    /\ Len(caller.runs) < 2
    /\ Len(caller.compiled) < 2
    /\ graph' = BuilderAfterCompile(graph)
    /\ caller' = [caller EXCEPT !.compiled = Append(@, caller.builder_calls)]
    /\ UNCHANGED <<state, current_node, iteration, pc, trace, result>>

\* add_node / set_entry_point / add_edge / add_conditional_edges on the
\* builder after a compile(), before the second run.
BuilderCall ==
    /\ pc = "idle"
    /\ Len(caller.runs) < 2
    /\ Len(caller.compiled) > 0
    /\ caller.builder_calls < MaxBuilderCalls
    /\ graph' \in BuilderCalls(graph)
    /\ caller' = [caller EXCEPT !.builder_calls = @ + 1]
    /\ UNCHANGED <<state, current_node, iteration, pc, trace, result>>

\* The caller starts a run of one of its executors on a fresh copy of the
\* input state.
StartRun(op, e, start) ==
    /\ state' = start.state
    /\ current_node' = start.current_node
    /\ iteration' = start.iteration
    /\ pc' = LoopPc(start.current_node, start.iteration)
    /\ trace' = <<>>
    /\ caller' = [caller EXCEPT !.op = op, !.executor = e,
                                !.registration = caller.builder_calls]
    /\ UNCHANGED <<graph, result>>

\* executor.invoke(initial_state): the first or the second of two runs.
Invoke ==
    /\ pc = "idle"
    /\ Len(caller.runs) < 2
    /\ \E e \in 1..Len(caller.compiled) :
          StartRun("invoke", e, InvokeStart(graph, caller.initial))

\* await executor.ainvoke(initial_state): the second of two runs.
AInvoke ==
    /\ pc = "idle"
    /\ Len(caller.runs) = 1
    /\ \E e \in 1..Len(caller.compiled) :
          StartRun("ainvoke", e, AInvokeStart(graph, caller.initial))

\* invoke / ainvoke returns (or raises): the caller keeps what the run did.
FinishRun ==
    /\ pc \in {"done", "raised"}
    /\ caller' = [caller EXCEPT !.runs =
                    Append(@, [op |-> caller.op, executor |-> caller.executor,
                               registration |-> caller.registration,
                               state |-> state, trace |-> trace, outcome |-> pc])]
    /\ pc' = "idle"
    /\ UNCHANGED <<graph, state, current_node, iteration, trace, result>>

ExecutorNext ==
    Compile \/ BuilderCall \/ Invoke \/ AInvoke \/ ExecuteNode \/ NextNode \/ FinishRun

ExecutorSpec == ExecutorInit /\ [][ExecutorNext]_vars

\* ---------------------------------------------------------------- properties

\* The stage invocations made so far (calls of node_func).
Invocations == {i \in 1..Len(trace) : trace[i].invoked}

IsPrefix(s, t) == Len(s) <= Len(t) /\ \A i \in 1..Len(s) : s[i] = t[i]

\* How many entries of seq equal e.
CountOf(seq, e) == Cardinality({i \in 1..Len(seq) : seq[i] = e})

\* The executor is about to call a registered stage function of this kind.
Calling(kinds) ==
    /\ pc = "exec"
    /\ current_node \in DOMAIN graph.nodes
    /\ graph.nodes[current_node] \in kinds

\* The executor has just called a stage function of this kind.
Called(kinds) ==
    /\ pc = "route"
    /\ Len(trace) > 0
    /\ trace[Len(trace)].invoked
    /\ current_node \in DOMAIN graph.nodes
    /\ graph.nodes[current_node] \in kinds

\* C1: a run makes at most 20 passes of the executor loop, hence at most 20
\* stage invocations, whatever cycles the edges form: a further pass is
\* started only while fewer than 20 were made.
C1_StepCeiling ==
    /\ iteration = Len(trace)
    /\ iteration <= 20
    /\ Cardinality(Invocations) <= 20
    /\ (pc = "exec" => iteration < 20)

\* C1 witness: the ceiling cuts a cycle: the run is over after 20 invocations
\* although the routing named a further registered stage.
C1_CeilingCutsCycle ==
    /\ pc = "done"
    /\ Cardinality(Invocations) = 20
    /\ current_node \in DOMAIN graph.nodes

\* C2: from one step of the executor to the next, errors and warnings keep
\* every entry recorded before (the old list is a prefix of the new one).
C2_ErrorsWarningsOnlyGrow ==
    [][/\ IsPrefix(state.errors, state'.errors)
       /\ IsPrefix(state.warnings, state'.warnings)]_vars

\* C3: invoke never raises past its boundary; it always returns a state.
C3_InvokeNeverRaises == pc # "raised"

\* C4 (as claimed): when the run is over, errors holds exactly one entry
\* naming each always-raising stage that was invoked.
C4_ExactlyOneEntry ==
    pc = "done" =>
        \A i \in Invocations :
            graph.nodes[trace[i].node] = "raise" =>
                CountOf(state.errors, NodeError(trace[i].node)) = 1

\* C4 (amended): each invocation of a raising stage S appends exactly one
\* entry naming S to errors, leaves every other field as it was, and goes on
\* to resolve the outgoing edge of S on that state.
C4_StageFailureStep ==
    [][Calling({"raise"}) =>
        /\ state' = [state EXCEPT !.errors = Append(@, NodeError(current_node))]
        /\ CountOf(state'.errors, NodeError(current_node))
             = CountOf(state.errors, NodeError(current_node)) + 1
        /\ pc' = "route"
        /\ current_node' = current_node]_vars

\* C4 witness: a raising stage was invoked and its entry is the last of errors.
C4_StageRaised ==
    /\ Called({"raise"})
    /\ Len(state.errors) > 0
    /\ state.errors[Len(state.errors)] = NodeError(current_node)

C6_MissingStageHalts ==
    (\E i \in 1..Len(trace) : ~trace[i].invoked) => pc # "exec"

\* C7: on a stage with a conditional edge, a label that is no key of the
\* mapping ends the run, and a label that is a key selects the mapped
\* destination, whatever plain edges the stage has.
C7_ConditionalRouting ==
    [][(/\ pc = "route"
        /\ current_node \in DOMAIN graph.conditional_edges
        /\ ~Decide(graph.conditional_edges[current_node].func, state).raised)
       => LET ce == graph.conditional_edges[current_node]
              label == Decide(ce.func, state).label
          IN  IF label \in DOMAIN ce.mapping
              THEN current_node' = EndToNone(ce.mapping[label])
              ELSE pc' = "done"]_vars

\* The stage names invoked so far, in order.
Executed(name) == \E i \in Invocations : trace[i].node = name

\* C8: every state returned by run_inspection / run_inspection_sync has
\* current_step = "report_generation" and a final_report.
C8_ReportAlwaysAssembled ==
    pc = "returned" =>
        /\ result[1].current_step = "report_generation"
        /\ Len(result[1].final_report) > 0

\* C9: a run in which Analysis ran and yielded zero findings returns a state
\* with a RiskAssessment of level LOW and score 0.1 and a report whose next
\* inspection is 6 months after assembly.
C9_ZeroFindingsStillScored ==
    (/\ pc = "returned"
     /\ Executed("corrosion_analysis")
     /\ Len(result[1].errors) = 0
     /\ Len(result[1].corrosion_detections) = 0)
    => /\ Len(result[1].risk_assessment) > 0
       /\ result[1].risk_assessment[1].corrosion_level = "LOW"
       /\ result[1].risk_assessment[1].risk_score * 10 = Unit
       /\ Len(result[1].final_report) > 0
       /\ result[1].final_report[1].next_inspection_offset
            = [months |-> 6, weeks |-> 0]

\* Intake recorded a failure of its own.
IntakeFailed(st) ==
    \E i \in 1..Len(st.errors) :
        st.errors[i] \in {<<"sensor_failed">>, <<"image_failed">>}

\* C10: a run in which Intake recorded a failure still executes the report
\* stage, and a run stops right after Intake only if Intake left neither
\* sensor readings nor images.
C10_IntakeFailureStillReports ==
    pc = "returned" =>
        /\ IntakeFailed(result[1]) => Executed("report_generation")
        /\ Len(trace) = 1 =>
              /\ Len(result[1].sensor_readings) = 0
              /\ Len(result[1].processed_images) = 0

\* The stage of the last pass of the loop.
LastNode == trace[Len(trace)].node

StageOrder ==
    <<"data_collection", "corrosion_analysis", "risk_assessment", "report_generation">>

\* C13: the stages executed in a pipeline run are a non-empty prefix of
\* data_collection, corrosion_analysis, risk_assessment, report_generation;
\* no stage runs twice.
C13_StagesRunOnceInOrder ==
    /\ Len(trace) <= Len(StageOrder)
    /\ \A i \in 1..Len(trace) : trace[i].invoked /\ trace[i].node = StageOrder[i]
    /\ pc \in {"route", "done", "raised", "returned"} => Len(trace) >= 1

\* C13 witness: a run that executed all four stages.
C13_AllFourStagesRan == pc = "returned" /\ Len(trace) = 4

\* C14: a failure of the vision analyzer on an image or of an advisory call
\* adds nothing to errors and does not fail the stage; the stage goes on with
\* the fallback: no finding for the image, the local commentary, the fixed
\* recommendations of the level, the summary built locally.
C14_CollaboratorFailuresDegrade ==
    /\ (pc = "exec" /\ current_node = "corrosion_analysis") =>
          \A outs \in [1..Len(state.processed_images) -> DetectOutcomes] :
             LET r == CorrosionAnalysisExecute(state, outs, "raise")
             IN  /\ r.errors = state.errors
                 /\ {<<"severity_assessment", "local">>,
                     <<"technical_insights", "local">>} \subseteq r.llm_analysis
                 /\ Len(r.corrosion_detections)
                      = Cardinality({i \in DOMAIN outs : outs[i].found})
                 /\ \A i \in DOMAIN outs :
                      outs[i] = NoRegions =>
                        \A j \in 1..Len(r.corrosion_detections) :
                           r.corrosion_detections[j].image_id
                             # state.processed_images[i].image_id
    /\ (pc = "exec" /\ current_node = "risk_assessment") =>
          LET r == RiskAssessmentExecute(state, "none")
              a == r.risk_assessment[1]
          IN  /\ r.errors = state.errors
              /\ Len(r.risk_assessment) = 1
              /\ Len(a.recommendations) >= 2
              /\ \A i \in 1..Len(a.recommendations) : a.recommendations[i][1] = "fixed"
    /\ (pc = "exec" /\ current_node = "report_generation") =>
          LET r == ReportGenerationExecute(state, "none", iteration + 1)
          IN  /\ r.errors = state.errors
              /\ Len(r.final_report) = 1
              /\ r.final_report[1].summary = "base"

\* C14 witness: a returned run in which every advisory call failed and one
\* image gave no finding, with a report and no error.
C14_RunOnFallbacks ==
    /\ pc = "returned"
    /\ Len(result[1].errors) = 0
    /\ <<"technical_insights", "local">> \in result[1].llm_analysis
    /\ Len(result[1].corrosion_detections) < Len(result[1].processed_images)
    /\ Len(result[1].final_report) = 1
    /\ result[1].final_report[1].summary = "base"
    /\ result[1].risk_assessment[1].recommendations[1][1] = "fixed"

LevelRank(level) ==
    CASE level = "LOW" -> 0
      [] level = "MEDIUM" -> 1
      [] level = "HIGH" -> 2
      [] level = "CRITICAL" -> 3

\* C15: below 0.3 the level is LOW, from 0.3 and below 0.6 MEDIUM, from 0.6
\* and below 0.8 HIGH, from 0.8 CRITICAL; the level never decreases as the
\* score grows; _determine_risk_level and get_risk_level agree.
C15_RiskLevelSteps ==
    /\ (pc = "returned" /\ caller.op = "get_risk_level") =>
          LET s == caller.score
          IN  /\ result[1] = result[2]
              /\ result[2] = (IF 10 * s < 3 * Unit THEN "LOW"
                              ELSE IF 10 * s < 6 * Unit THEN "MEDIUM"
                              ELSE IF 10 * s < 8 * Unit THEN "HIGH"
                              ELSE "CRITICAL")
              /\ \A t \in ScoreGrid :
                    t <= s => LevelRank(get_risk_level(t)) <= LevelRank(result[1])
    /\ (pc = "returned" /\ caller.op = "RiskAssessmentNode.execute"
            /\ Len(state.corrosion_detections) > 0) =>
          state.risk_assessment[1].corrosion_level
            = get_risk_level(state.risk_assessment[1].risk_score)

\* C15 witness: both functions were applied to the score 0.6 and gave HIGH.
C15_AtMediumThreshold ==
    /\ pc = "returned"
    /\ caller.op = "get_risk_level"
    /\ caller.score = medium_risk_threshold
    /\ result = <<"HIGH", "HIGH">>

\* C16: for a non-empty findings list and any readings, each factor and the
\* combined score lie in [0, 1].
C16_FactorsAndScoreInUnitRange ==
    (/\ pc = "call"
     /\ caller.op = "RiskAssessmentNode.execute"
     /\ Len(state.corrosion_detections) > 0)
    => LET f == Factors(state.corrosion_detections, state.sensor_readings)
           score == RiskScore(f.corrosion_area, f.corrosion_depth,
                              f.corrosion_count, f.environmental)
       IN  /\ \A k \in DOMAIN f : 0 <= f[k] /\ f[k] <= Unit
           /\ 0 <= score /\ score <= Unit

\* A value in units of 1/Unit, in thousandths (three decimals, truncated).
Thousandths(x) == (x * 1000) \div Unit

\* Two findings of 600 mm2 in total, 2.5 mm deep at most, no readings.
ScenarioB(st) ==
    LET d == st.corrosion_detections
    IN  /\ Len(d) = 2
        /\ d[1].corrosion_area + d[2].corrosion_area = 600
        /\ Max(d[1].corrosion_depth, d[2].corrosion_depth) = 250
        /\ Len(st.sensor_readings) = 0

\* The numbers of Scenario B: factors 0.12, 0.833, 0.2, 0.5, score 0.459,
\* level MEDIUM.
ScenarioBNumbers(a) ==
    /\ Thousandths(a.factors.corrosion_area) = 120
    /\ Thousandths(a.factors.corrosion_depth) = 833
    /\ Thousandths(a.factors.corrosion_count) = 200
    /\ Thousandths(a.factors.environmental) = 500
    /\ Thousandths(a.risk_score) = 459
    /\ a.corrosion_level = "MEDIUM"

SameRun(r1, r2) ==
    r1.trace = r2.trace /\ r1.state = r2.state /\ r1.outcome = r2.outcome

\* C18: on the same graph and the same initial state ainvoke makes the same
\* stage invocations and routing decisions as invoke and returns the same
\* final state, and while it runs nothing but the executor's own steps happen.
C18_AInvokeSameAsInvoke ==
    /\ [](\A i, j \in 1..Len(caller.runs) :
            (/\ caller.runs[i].op = "invoke"
             /\ caller.runs[j].op = "ainvoke"
             /\ caller.runs[i].registration = caller.runs[j].registration)
            => SameRun(caller.runs[i], caller.runs[j]))
    /\ [][(caller.op = "ainvoke" /\ pc \in {"exec", "route"}) =>
            /\ ExecuteNode \/ NextNode
            /\ caller' = caller /\ graph' = graph]_vars

\* C18 witness: an invoke run and an ainvoke run of a graph with a failing
\* stage have both finished after invoking stages.
C18_BothEntryPointsRan ==
    /\ Len(caller.runs) = 2
    /\ caller.runs[1].op = "invoke"
    /\ caller.runs[2].op = "ainvoke"
    /\ caller.runs[1].registration = caller.runs[2].registration
    /\ Len(caller.runs[2].trace) > 1

\* C19: builder calls made after compile() do not change which stages an
\* executor compiled before them invokes nor the transitions it takes: two
\* runs of one executor on the same input do the same.
C19_CompiledGraphImmutable ==
    \A i, j \in 1..Len(caller.runs) :
        caller.runs[i].executor = caller.runs[j].executor
        => SameRun(caller.runs[i], caller.runs[j])

\* C20: two executors compiled from the same registration, run on the same
\* input state while the registration is still the same, do the same.
C20_CompileIdempotent ==
    \A i, j \in 1..Len(caller.runs) :
        (/\ caller.runs[i].executor # caller.runs[j].executor
         /\ caller.compiled[caller.runs[i].executor]
              = caller.compiled[caller.runs[j].executor]
         /\ caller.runs[i].registration = caller.compiled[caller.runs[i].executor]
         /\ caller.runs[j].registration = caller.compiled[caller.runs[j].executor])
        => SameRun(caller.runs[i], caller.runs[j])

\* C20 witness: the executors of two compile() calls on one registration
\* have both been run, the second compile() coming after the first run.
C20_TwoExecutorsRan ==
    /\ Len(caller.runs) = 2
    /\ caller.runs[1].executor = 1
    /\ caller.runs[2].executor = 2
    /\ caller.builder_calls = 0
    /\ Len(caller.runs[1].trace) > 1

\* C21: compile() on a builder for which set_entry_point was never called
\* reports an error instead of returning an executor: no compile() step taken
\* while entry_point is None adds an executor to those the caller holds.
C21_CompileRejectsMissingEntry ==
    [][graph.entry_point = None => Len(caller'.compiled) = Len(caller.compiled)]_vars

\* C22: a run never changes its identifiers: in every state of a run of
\* run_inspection / run_inspection_sync, and in the state it returns,
\* platform_id and inspection_area are the caller's arguments and session_id
\* is the id assigned when the run started, which is not None.
C22_RunIdentifiersKept ==
    LET Kept(st) ==
            /\ st.platform_id = caller.platform_id
            /\ st.inspection_area = caller.inspection_area
            /\ st.session_id = caller.session_id
            /\ st.session_id # None
    IN  /\ Kept(state)
        /\ pc = "returned" => (Len(result) = 1 /\ Kept(result[1]))

\* A run for platform P2 that went through all four stages has returned.
C22_FullRunReturned ==
    /\ pc = "returned"
    /\ caller.platform_id = "P2"
    /\ Len(trace) = 4
    /\ result[1].final_report # NoValue

C24_NoFindingsAssessment ==
    [][(/\ pc = "call"
        /\ caller.op = "RiskAssessmentNode.execute"
        /\ Len(state.corrosion_detections) = 0) =>
        /\ pc' = "returned"
        /\ Len(state'.risk_assessment) = 1
        /\ state'.risk_assessment[1].corrosion_level = "LOW"
        /\ 10 * state'.risk_assessment[1].risk_score = Unit
        /\ Len(state'.risk_assessment[1].recommendations) = 2
        /\ state'.risk_assessment[1].urgency = "low"
        /\ \A f \in Fields \ {"risk_assessment"} : state'[f] = state[f]]_vars

\* The stage has returned for a state without findings whose readings are
\* those of a sensor profile.
C24_ScoredWithoutFindings ==
    /\ pc = "returned"
    /\ caller.op = "RiskAssessmentNode.execute"
    /\ Len(state.corrosion_detections) = 0
    /\ Len(state.sensor_readings) = 9
    /\ state.risk_assessment # NoValue

\* The mapping a stage function of the test graphs returns.
ReturnedMapping(kind, name, st) ==
    CASE kind = "dict_full" -> FullDict(name, st)
      [] kind = "dict_part" -> PartDict(name)
      [] OTHER -> JunkDict

C26_FirstEdgeOnly ==
    [][(/\ pc = "route"
        /\ current_node \notin DOMAIN graph.conditional_edges
        /\ current_node \in DOMAIN graph.edges
        /\ Len(graph.edges[current_node]) > 0) =>
        LET first == graph.edges[current_node][1]
        IN  IF first = END
            THEN current_node' = None /\ pc' = "done"
            ELSE /\ current_node' = first
                 /\ pc' = IF iteration < max_iterations THEN "exec" ELSE "done"]_vars

\* Stage "a" has the plain edges to "b" and then to "a" and no conditional
\* edge; after its first execution the run is at "b".
C26_SecondEdgeNotFollowed ==
    /\ "a" \notin DOMAIN graph.conditional_edges
    /\ "a" \in DOMAIN graph.edges
    /\ graph.edges["a"] = <<"b", "a">>
    /\ Len(trace) = 1
    /\ trace[1].node = "a"
    /\ current_node = "b"
    /\ pc = "exec"

\* The environmental factor with the mid-value 0.5 for every kind without a
\* reading: weights 0.3 (temperature), 0.4 (humidity), 0.3 (pH).
MidValueEnvironmental(readings) ==
    LET Has(type) == Len(ReadingsOfType(readings, type)) > 0
        temp == IF Has("temperature")
                THEN BandScore(readings, "temperature", 15, 20, 3)
                ELSE (3 * Unit) \div 20
        hum == IF Has("humidity")
               THEN BandScore(readings, "humidity", 60, 30, 4)
               ELSE (4 * Unit) \div 20
        ph == IF Has("ph") THEN PhScore(readings) ELSE (3 * Unit) \div 20
    IN  Min(Unit, temp + hum + ph)

\* C27: a kind (temperature, humidity, pH) without a reading contributes its
\* mid-value, 0.5 times its weight, to the environmental factor; readings
\* without any of the three kinds give an environmental factor of 0.5.
C27_AbsentKindsDefaultToMid ==
    (/\ pc = "returned"
     /\ caller.op = "RiskAssessmentNode.execute"
     /\ Len(state.corrosion_detections) > 0) =>
        state.risk_assessment[1].factors.environmental
            = MidValueEnvironmental(state.sensor_readings)

\* The urgency labels from lowest to highest.
UrgencyRank(urgency) ==
    CASE urgency = "low" -> 0
      [] urgency = "medium" -> 1
      [] urgency = "high" -> 2
      [] urgency = "urgent" -> 3

\* C28: for every level and every maximum depth, urgency is the highest label
\* if level is CRITICAL or depth > 2.0 mm; otherwise the next label if level
\* is HIGH or depth > 1.0 mm; otherwise the mid label if level is MEDIUM;
\* otherwise the lowest. It is never lower than the urgency implied by the
\* level alone and does not decrease when level or depth rises.
C28_UrgencyRule ==
    (pc = "returned" /\ caller.op = "_determine_urgency") =>
        LET level == caller.level
            depth == caller.max_depth
            urgency == result[1]
        IN  /\ (level = "CRITICAL" \/ depth > 200) => urgency = "urgent"
            /\ (~(level = "CRITICAL" \/ depth > 200)
                    /\ (level = "HIGH" \/ depth > 100)) => urgency = "high"
            /\ (level = "MEDIUM" /\ depth <= 100) => urgency = "medium"
            /\ (level = "LOW" /\ depth <= 100) => urgency = "low"
            /\ UrgencyRank(urgency) >= LevelRank(level)
            /\ \A l \in Levels, d \in DepthGrid :
                   (LevelRank(l) >= LevelRank(level) /\ d >= depth) =>
                       UrgencyRank(DetermineUrgency(l, d)) >= UrgencyRank(urgency)

\* _determine_urgency has returned for level LOW and a depth of exactly
\* 2.0 mm: the depth is beyond the smaller threshold only.
C28_AtLargeThreshold ==
    /\ pc = "returned"
    /\ caller.op = "_determine_urgency"
    /\ caller.level = "LOW"
    /\ caller.max_depth = 200
    /\ result = <<"high">>

\* An offset in days, a month counted as 30 days.
OffsetDays(offset) == 30 * offset.months + 7 * offset.weeks

\* C29: the next-inspection offset depends on the assessment only: 6 months
\* for LOW, 3 months for MEDIUM, 1 month for HIGH, 1 week for CRITICAL, and
\* 6 months when there is no assessment; it never grows as the level rises.
C29_NextInspectionOffset ==
    (pc = "returned" /\ caller.op = "_calculate_next_inspection_date") =>
        LET a == caller.assessment
            offset == result[1]
        IN  /\ a = NoValue => offset = [months |-> 6, weeks |-> 0]
            /\ a # NoValue =>
                  /\ a[1].corrosion_level = "LOW" => offset = [months |-> 6, weeks |-> 0]
                  /\ a[1].corrosion_level = "MEDIUM" => offset = [months |-> 3, weeks |-> 0]
                  /\ a[1].corrosion_level = "HIGH" => offset = [months |-> 1, weeks |-> 0]
                  /\ a[1].corrosion_level = "CRITICAL" => offset = [months |-> 0, weeks |-> 1]
                  /\ \A b \in Assessments \ {NoValue} :
                        LevelRank(b[1].corrosion_level) >= LevelRank(a[1].corrosion_level)
                            => OffsetDays(NextInspectionOffset(b)) <= OffsetDays(offset)

\* The offset has been computed for a state without assessment.
C29_OffsetWithoutAssessment ==
    /\ pc = "returned"
    /\ caller.op = "_calculate_next_inspection_date"
    /\ caller.assessment = NoValue
    /\ result = <<[months |-> 6, weeks |-> 0]>>

====
